---- MODULE Spec2Model ----
(***************************************************************************)
(* YoCrawl: the observe -> plan -> act Agent Loop (src/agent/AgentLoop.js), *)
(* the Action Dispatcher (src/executor/ActionExecutor.js) and the Session  *)
(* Registry (src/agent/SessionManager.js).                                 *)
(*                                                                         *)
(* JavaScript runs one handler at a time; a handler gives up control only  *)
(* at an await of real I/O or of a timer.  Every action below is one such  *)
(* run-to-suspension piece: an HTTP/socket handler, a timer callback, or   *)
(* the continuation of run() after one of its awaits has settled.          *)
(***************************************************************************)
EXTENDS Integers, Sequences, FiniteSets, TLC

\* ------------------------------------------------------------------ bounds
MaxSteps == 2          \* config.agent.maxSteps of the modelled deployment
MaxBatch == 3          \* longest request list handed to executeBatch directly
MaxTime == 25          \* the clock stops advancing here (minutes)
TickMinutes == 5       \* granularity of the clock (minutes)
MaxRuns == 2           \* calls of run() made on one AgentLoop

\* --------------------------------------------------------- program constants
maxConsecutiveErrors == 3
sessionTimeoutMinutes == 15
RetentionMinutes == 10

SessionIds == {1, 2}
Solo == {1}

\* null, and a present value x, of a nullable field
NULL == <<>>
Some(x) == <<x>>

\* a string, as the sequence of the parts it is concatenated from
Text(str) == <<str>>

\* --------------------------------------------------------- action requests
\* ACTION_HANDLERS is a plain object literal: its own keys are the supported
\* tags, and a lookup by any other name falls through to Object.prototype.
OwnKeys == {"click", "navigate"}
\* names every plain object inherits: a callable one and a non-callable one
ProtoCallable == {"constructor"}
ProtoObject == {"__proto__"}
OtherTags == {"dance"}
Tags == OwnKeys \cup ProtoCallable \cup ProtoObject \cup OtherTags

\* An entry of plan.actions.  isNull: the entry is JSON null.  throws: whether
\* the primitive of a supported tag fails when it is invoked on the page.
Req(tag, throws) == [isNull |-> FALSE, action |-> tag, throws |-> throws]
NullReq == [isNull |-> TRUE, action |-> "undefined", throws |-> FALSE]
Requests ==
    {Req(t, FALSE) : t \in Tags} \cup {Req(t, TRUE) : t \in OwnKeys} \cup {NullReq}
\* the action lists of the plans the modelled planner answers with: none, one
\* that succeeds, two of which the second fails on the page, a null entry
LoopActionLists ==
    {<<>>, <<Req("click", FALSE)>>, <<Req("click", FALSE), Req("click", TRUE)>>,
     <<NullReq>>}

BoundedSeq(S, n) == UNION {[1..k -> S] : k \in 0..n}

listSupportedActions == OwnKeys

\* ACTION_HANDLERS[action]
Lookup(action) ==
    IF action \in OwnKeys THEN "handler"
    ELSE IF action \in ProtoCallable THEN "Object"
    ELSE IF action \in ProtoObject THEN "Object.prototype"
    ELSE "undefined"

NoError == [text |-> "undefined", names |-> "undefined"]
OkWithoutPayload(action, payload) ==
    [success |-> TRUE, action |-> action, result |-> "undefined", error |-> NoError]
Ok(action, payload) ==
    [success |-> TRUE, action |-> action, result |-> payload, error |-> NoError]
Failed(action, text, names) ==
    [success |-> FALSE, action |-> action, result |-> "undefined",
     error |-> [text |-> text, names |-> names]]

\* ActionExecutor.execute: what the call settles to.  raised: the promise
\* rejects (the destructuring of line 119 is outside the try).  invoked: a
\* primitive was called on the page.
Execute(req) ==
    IF req.isNull
    THEN [raised |-> TRUE, invoked |-> FALSE,
          result |-> Failed("undefined", "TypeError: Cannot destructure", "undefined")]
    ELSE LET handler == Lookup(req.action) IN
         CASE handler = "undefined" ->
                [raised |-> FALSE, invoked |-> FALSE,
                 result |-> Failed(req.action, "Unknown action", req.action)]
           [] handler = "handler" ->
                [raised |-> FALSE, invoked |-> TRUE,
                 result |-> IF req.throws
                            THEN Failed(req.action, "Element not found", "undefined")
                            ELSE Ok(req.action, "done")]
           [] handler = "Object" ->
                \* Object(page, params) returns page: no throw, no primitive
                [raised |-> FALSE, invoked |-> FALSE,
                 result |-> Ok(req.action, "page")]
           [] OTHER ->
                [raised |-> FALSE, invoked |-> FALSE,
                 result |-> Failed(req.action, "handler is not a function", "undefined")]

\* One iteration of executeBatch's for loop on the call frame b:
\* execute the next request, push its result, break on a failure.
NoBreakIteration(b) ==
    LET i == Len(b.results) + 1
        e == Execute(b.actions[i])
    IN  IF e.raised
        THEN [b EXCEPT !.state = "raised", !.executed = Append(@, i)]
        ELSE [b EXCEPT !.results = Append(@, e.result),
                       !.executed = Append(@, i),
                       !.invoked = IF e.invoked THEN Append(@, i) ELSE @,
                       !.state = IF i = Len(b.actions) THEN "returned" ELSE "running"]

BatchIteration(b) ==
    LET i == Len(b.results) + 1
        e == Execute(b.actions[i])
    IN  IF e.raised
        THEN [b EXCEPT !.state = "raised", !.executed = Append(@, i)]
        ELSE [b EXCEPT !.results = Append(@, e.result),
                       !.executed = Append(@, i),
                       !.invoked = IF e.invoked THEN Append(@, i) ELSE @,
                       !.state = IF ~e.result.success \/ i = Len(b.actions)
                                 THEN "returned" ELSE "running"]

\* The frame of a call executeBatch(actions); an empty list returns at once.
BatchCall(actions) ==
    [actions |-> actions, results |-> <<>>, executed |-> <<>>, invoked |-> <<>>,
     state |-> IF Len(actions) = 0 THEN "returned" ELSE "running"]
NoBatch == [actions |-> <<>>, results |-> <<>>, executed |-> <<>>, invoked |-> <<>>,
            state |-> "none"]


\* ------------------------------------------------------------ error taxonomy
\* A failure message: its text and the known markers the text contains.
Msg(text, markers) == [text |-> text, markers |-> markers]
LaunchFault == Msg("browserType.launch: Executable doesn't exist", {})
GotoFault == Msg("page.goto: Timeout 15000ms exceeded", {"timeout"})
ExtractFault == Msg("page.evaluate: Target closed", {})
DestructureFault == Msg("TypeError: Cannot destructure property 'action'", {})
PlannerFaults ==
    {Msg("fetch failed: ETIMEDOUT", {"ETIMEDOUT"}), Msg("API key not valid", {"API key"})}

Has(m, marks) == m.markers \cap marks # {}

\* the markers classifyError looks for, by the kind it gives them
MarkersOf ==
    [RATE_LIMIT |-> {"429", "rate limit", "quota"},
     TIMEOUT |-> {"timeout", "ETIMEDOUT"},
     NETWORK |-> {"ECONNREFUSED", "network"},
     PARSE_ERROR |-> {"Invalid JSON", "parse"},
     AUTH_ERROR |-> {"API key", "auth", "401"}]
KnownMarkers == UNION {MarkersOf[k] : k \in DOMAIN MarkersOf}

\* AgentLoop.classifyError
classifyErrorUnknown(m) == [type |-> "UNKNOWN", message |-> <<"", m.text>>, retryable |-> FALSE]
classifyError(m) ==
    IF Has(m, {"429", "rate limit", "quota"})
    THEN [type |-> "RATE_LIMIT", message |-> <<"Rate limited: ", m.text>>, retryable |-> TRUE]
    ELSE IF Has(m, {"timeout", "ETIMEDOUT"})
    THEN [type |-> "TIMEOUT", message |-> <<"Request timed out: ", m.text>>, retryable |-> TRUE]
    ELSE IF Has(m, {"ECONNREFUSED", "network"})
    THEN [type |-> "NETWORK", message |-> <<"Network error: ", m.text>>, retryable |-> TRUE]
    ELSE IF Has(m, {"Invalid JSON", "parse"})
    THEN [type |-> "PARSE_ERROR", message |-> <<"Invalid response: ", m.text>>, retryable |-> TRUE]
    ELSE IF Has(m, {"API key", "auth", "401"})
    THEN [type |-> "AUTH_ERROR", message |-> <<"Authentication error: ", m.text>>, retryable |-> FALSE]
    ELSE [type |-> "UNKNOWN", message |-> <<"", m.text>>, retryable |-> FALSE]

TimedOutError == <<"Session timed out after minutes", "15">>

\* -------------------------------------------------------------------- plans
\* What ActionPlanner.parseResponse can hand back to the loop.
Plan(done, actions, result) == [done |-> done, actions |-> actions, result |-> result]
PlannerPlans ==
    {Plan(FALSE, a, NULL) : a \in LoopActionLists}
    \cup {Plan(TRUE, <<>>, Text("none found")),
          Plan(TRUE, <<Req("click", FALSE)>>, Text("3 found"))}

\* -------------------------------------------------------------------- state
VARIABLES
    now,              \* Date.now(), in minutes
    sessions,         \* keys of SessionManager.sessions
    sessionTimeouts,  \* keys of SessionManager.sessionTimeouts
    timer,            \* each session's setTimeout handle: none, armed, fired, cleared
    session,          \* the session records (they outlive their map entry)
    agent,            \* the AgentLoop bound to each session
    pc,               \* where run() of each agent is suspended
    batch,            \* the executeBatch call frame of each executor
    planner,          \* each agent's planner calls: the previousResults argument
                      \* of the latest request, the requests rejected since the
                      \* last one that resolved, and the error of the latest of
                      \* these with what classifyError made of it
    sweep,            \* what the latest reapStaleSessions sweep did with the
                      \* sessions it met: those it kept although they ended
                      \* before its cutoff, those it removed although not,
                      \* those it removed although live
    maxSteps,         \* config.agent.maxSteps, read from the environment at startup
    reaperInterval,   \* the registry's setInterval handle: set, cleared
    sockets,          \* the push channel: the connected sockets, each session's
                      \* room, and the forwarding handlers each socket has
                      \* registered on each session's agent (per event name)
    relayed,          \* the io.to(room).emit calls made for the latest event of
                      \* each session's loop
    reply             \* what the latest registry call that found no record returned

vars ==
    <<now, sessions, sessionTimeouts, timer, session, agent, pc, batch, planner, sweep,
      maxSteps, reaperInterval, sockets, relayed, reply>>

\* new AgentLoop()
\* (runs: the calls of run() so far; events: the task events emitted so far)
NewAgent ==
    [status |-> "idle", aborted |-> FALSE, stepCount |-> 0, consecutiveErrors |-> 0,
     history |-> <<>>, browser |-> "null", runs |-> 0, events |-> <<>>]

\* run(), up to its first await (lines 42-47)
RunEntry(a) == [a EXCEPT !.status = "running", !.runs = @ + 1]

\* emit('task:complete', { report }) and emit('task:error', { error, type })
EmitNoTaskEvent(a) == a
EmitTaskComplete(a) ==
    [a EXCEPT !.events = Append(@, [name |-> "task:complete", error |-> NULL, type |-> NULL])]
EmitTaskErrorRaw(a, m) ==
    [a EXCEPT !.events = Append(@, [name |-> "task:error", error |-> Some(<<"", m.text>>),
                                    type |-> Some("UNKNOWN")])]
EmitTaskError(a, m) ==
    [a EXCEPT !.events = Append(@, [name |-> "task:error",
                                    error |-> Some(classifyError(m).message),
                                    type |-> Some(classifyError(m).type)])]

\* the record createSession builds
NewSession(t) ==
    [report |-> NULL, error |-> NULL, completedAt |-> NULL, endedAt |-> NULL,
     startedAt |-> t, steps |-> <<>>]

\* no planNextActions call made yet
NoCalls == [previousResults |-> NULL, rejected |-> 0, thrown |-> NULL, classified |-> NULL]

\* the clients that connect to the push channel
Sockets == {"c1", "c2"}

\* no client has connected yet
NoSockets ==
    [state |-> [c \in Sockets |-> "new"],
     room |-> [s \in SessionIds |-> {}],
     handlers |-> [s \in SessionIds |-> [c \in Sockets |-> 0]]]

\* no registry call has missed yet
NoReply == [op |-> "none", id |-> 0, value |-> "none"]

\* no sweep made yet
NoSweep == [overdue |-> {}, early |-> {}, live |-> {}]

\* Date.now() is positive when the registry is constructed
Init ==
    /\ now = TickMinutes
    /\ sessions = {}
    /\ sessionTimeouts = {}
    /\ timer = [s \in SessionIds |-> "none"]
    /\ session = [s \in SessionIds |-> NewSession(TickMinutes)]
    /\ agent = [s \in SessionIds |-> NewAgent]
    /\ pc = [s \in SessionIds |-> "none"]
    /\ batch = [s \in SessionIds |-> NoBatch]
    /\ planner = [s \in SessionIds |-> NoCalls]
    /\ sweep = NoSweep
    /\ maxSteps = MaxSteps
    /\ reaperInterval = "set"
    /\ sockets = NoSockets
    /\ relayed = [s \in SessionIds |-> 0]
    /\ reply = NoReply

\* ---------------------------------------------------------------- AgentLoop
\* AgentLoop.stop
stopStatusOnly(a) == [a EXCEPT !.status = "stopping"]
stop(a) == [a EXCEPT !.aborted = TRUE, !.status = "stopping"]

\* AgentLoop.getLastResults
Succeeded(result) == result.success
getLastResultsSucceeded(a) ==
    IF Len(a.history) = 0 THEN NULL
    ELSE Some(SelectSeq(a.history[Len(a.history)].results, Succeeded))
getLastResults(a) ==
    IF Len(a.history) = 0 THEN NULL ELSE Some(a.history[Len(a.history)].results)

\* AgentLoop.buildReport
buildReportHistoryLength(a, finalResult) ==
    [task |-> "complete", totalSteps |-> Len(a.history), maxSteps |-> maxSteps,
     result |-> finalResult]
buildReport(a, finalResult) ==
    [task |-> "complete", totalSteps |-> a.stepCount, maxSteps |-> maxSteps,
     result |-> finalResult]

\* the registry's step:start, step:observe, step:plan and step:act listeners:
\* a Step Record is pushed on session.steps (timestamps and latency samples
\* are left out)
StepRecord(phase, step, plan, results) ==
    [phase |-> phase, step |-> step, plan |-> plan, results |-> results]
OnStep(rec, phase, step, plan, results) ==
    [rec EXCEPT !.steps = Append(@, StepRecord(phase, step, plan, results))]

\* the registry's task:complete and task:error listeners
OnTaskComplete(rec, report) ==
    [rec EXCEPT !.report = Some(report), !.completedAt = Some(now), !.endedAt = Some(now)]
OnTaskError(rec, error) ==
    [rec EXCEPT !.error = Some(error), !.completedAt = Some(now), !.endedAt = Some(now)]

\* BrowserSession.close, up to its await
CloseLeavesOpen(a, outcome) == outcome
CloseOrSettle(a, outcome) ==
    IF a.browser # "null" THEN IF outcome = "returned" THEN "closeOk" ELSE "closeErr"
    ELSE outcome

\* run(): loop() returned `report` (lines 59-62), then the finally clause
RunReturn(s, a, rec, report) ==
    /\ agent' = [agent EXCEPT ![s] = EmitTaskComplete([a EXCEPT !.status = "complete"])]
    /\ session' = [session EXCEPT ![s] = OnTaskComplete(rec, report)]
    /\ pc' = [pc EXCEPT ![s] = CloseOrSettle(a, "returned")]

\* run(): the catch clause (lines 63-67), then the finally clause
RunCatch(s, a, rec, m) ==
    /\ agent' = [agent EXCEPT ![s] = EmitTaskError([a EXCEPT !.status = "error"], m)]
    /\ session' = [session EXCEPT ![s] = OnTaskError(rec, classifyError(m).message)]
    /\ pc' = [pc EXCEPT ![s] = CloseOrSettle(a, "threw")]

\* the while condition of loop()
BudgetLeftInclusive(a) == a.stepCount <= maxSteps
BudgetLeft(a) == a.stepCount < maxSteps

\* loop(): from the while condition to the await of extract() (lines 77-90),
\* or out of the loop (lines 167-168)
\* the cancellation check at the top of the loop body (line 78)
AbortNeverSeen(a) == FALSE
AbortRequested(a) == a.aborted

\* (rec: the session record as the listeners have left it so far)
LoopIterate(s, a, rec) ==
    IF BudgetLeft(a)
    THEN IF AbortRequested(a)
         THEN RunReturn(s, a, rec, buildReport(a, Text("Task aborted by user.")))
         ELSE /\ agent' = [agent EXCEPT ![s] = [a EXCEPT !.stepCount = @ + 1]]
              /\ pc' = [pc EXCEPT ![s] = "observe"]
              /\ session' = [session EXCEPT ![s] =
                    OnStep(rec, "start", a.stepCount + 1, NULL, NULL)]
    ELSE RunReturn(s, a, rec, buildReport(a, Text("Max steps reached. Task may be incomplete.")))


\* A handler touching none of the registry's maps, timers or clock
RegistryUnchanged ==
    UNCHANGED <<now, sessions, sessionTimeouts, timer, sweep, maxSteps, reaperInterval,
                sockets, reply>>

\* POST /start: createSession (the record, the listeners, the armed timeout),
\* then run() up to its first await, the browser launch
StartSession(s) ==
    /\ pc[s] = "none"
    /\ sessions' = sessions \cup {s}
    /\ sessionTimeouts' = sessionTimeouts \cup {s}
    /\ timer' = [timer EXCEPT ![s] = "armed"]
    /\ session' = [session EXCEPT ![s] = NewSession(now)]
    /\ agent' = [agent EXCEPT ![s] = RunEntry(NewAgent)]
    /\ pc' = [pc EXCEPT ![s] = "launch"]
    /\ planner' = [planner EXCEPT ![s] = NoCalls]
    /\ UNCHANGED <<now, batch, sweep, maxSteps>>
    /\ UNCHANGED <<reaperInterval, sockets, relayed, reply>>

\* chromium.launch() settles
LaunchReturn(s) ==
    /\ pc[s] = "launch"
    /\ \/ /\ agent' = [agent EXCEPT ![s].browser = "open"]
          /\ pc' = [pc EXCEPT ![s] = "newContext"]
          /\ UNCHANGED session
       \/ RunCatch(s, agent[s], session[s], LaunchFault)
    /\ UNCHANGED <<batch, planner>>
    /\ RegistryUnchanged

\* browser.newContext() / context.newPage() settle; run() goes on to page.goto
NewContextReturn(s) ==
    /\ pc[s] = "newContext"
    /\ \/ /\ pc' = [pc EXCEPT ![s] = "goto"]
          /\ UNCHANGED <<agent, session>>
       \/ RunCatch(s, agent[s], session[s], LaunchFault)
    /\ UNCHANGED <<batch, planner>>
    /\ RegistryUnchanged

\* page.goto(startUrl) settles; on success run() enters loop()
GotoReturn(s) ==
    /\ pc[s] = "goto"
    /\ \/ LoopIterate(s, agent[s], session[s])
       \/ RunCatch(s, agent[s], session[s], GotoFault)
    /\ UNCHANGED <<batch, planner>>
    /\ RegistryUnchanged

\* extract() rejected: the catch of the observe phase (lines 91-97)
ObserveUncaught(s) ==
    /\ RunCatch(s, agent[s], session[s], ExtractFault)
    /\ UNCHANGED planner
ObserveCaught(s) ==
    /\ pc' = [pc EXCEPT ![s] = "sleepObserve"]
    /\ UNCHANGED <<agent, session, planner>>

\* contextExtractor.extract() settles: on success the planner is called,
\* on failure the loop sleeps one second
ObserveReturn(s) ==
    /\ pc[s] = "observe"
    /\ \/ /\ session' = [session EXCEPT ![s] =
                OnStep(@, "observe", agent[s].stepCount, NULL, NULL)]
          /\ planner' = [planner EXCEPT ![s].previousResults = getLastResults(agent[s])]
          /\ pc' = [pc EXCEPT ![s] = "plan"]
          /\ UNCHANGED agent
       \/ ObserveCaught(s)
    /\ UNCHANGED batch
    /\ RegistryUnchanged

\* the sleep after a failed observe ends: continue
SleepObserveReturn(s) ==
    /\ pc[s] = "sleepObserve"
    /\ LoopIterate(s, agent[s], session[s])
    /\ UNCHANGED <<batch, planner>>
    /\ RegistryUnchanged

\* loop(): line 109, after planNextActions has resolved
PlanResolvedNoReset(a) == a
PlanResolved(a) == [a EXCEPT !.consecutiveErrors = 0]

\* the completion test of line 144
PlanNeverDone(plan) == FALSE
PlanDone(plan) == plan.done

\* planner.planNextActions() resolves with a plan
PlanReturn(s) ==
    /\ pc[s] = "plan"
    /\ \E plan \in PlannerPlans :
          LET a == PlanResolved(agent[s])
              rec == OnStep(session[s], "plan", a.stepCount, Some(plan), NULL)
          IN
          IF PlanDone(plan)
          THEN RunReturn(s, a, rec, buildReport(a, plan.result)) /\ UNCHANGED batch
          ELSE IF Len(plan.actions) = 0
          THEN LoopIterate(s, a, rec) /\ UNCHANGED batch
          ELSE /\ agent' = [agent EXCEPT ![s] = a]
               /\ batch' = [batch EXCEPT ![s] = BatchCall(plan.actions)]
               /\ pc' = [pc EXCEPT ![s] = "act"]
               /\ session' = [session EXCEPT ![s] = rec]
    /\ planner' = [planner EXCEPT ![s].rejected = 0, ![s].thrown = NULL,
                                  ![s].classified = NULL]
    /\ RegistryUnchanged

\* planner.planNextActions() rejects
PlanThrow(s) ==
    /\ pc[s] = "plan"
    /\ \E m \in PlannerFaults :
          LET a == [agent[s] EXCEPT !.consecutiveErrors = @ + 1] IN
          /\ IF a.consecutiveErrors >= maxConsecutiveErrors
             THEN RunReturn(s, a, session[s], buildReport(a,
                     Text("Agent stopped: consecutive planner errors. Last: ")
                         \o classifyError(m).message))
             ELSE /\ agent' = [agent EXCEPT ![s] = a]
                  /\ pc' = [pc EXCEPT ![s] = "sleepPlan"]
                  /\ UNCHANGED session
          /\ planner' = [planner EXCEPT ![s].rejected = @ + 1, ![s].thrown = Some(m),
                                        ![s].classified = Some(classifyError(m))]
    /\ UNCHANGED batch
    /\ RegistryUnchanged

\* the backoff after a planner error ends: stepCount--, continue
SleepPlanReturn(s) ==
    /\ pc[s] = "sleepPlan"
    /\ LoopIterate(s, [agent[s] EXCEPT !.stepCount = @ - 1], session[s])
    /\ UNCHANGED <<batch, planner>>
    /\ RegistryUnchanged

\* executeBatch runs its next iteration; when it returns the loop records the
\* results and sleeps the step delay, when it rejects run() catches
ActStepUnawaited(s) ==
    /\ pc[s] = "act"
    /\ batch[s].state = "running"
    /\ pc' = [pc EXCEPT ![s] = "sleepStep"]
    /\ UNCHANGED <<agent, session, batch, planner>>
    /\ RegistryUnchanged
ActStep(s) ==
    /\ pc[s] = "act"
    /\ batch[s].state = "running"
    /\ LET b == BatchIteration(batch[s]) IN
       /\ batch' = [batch EXCEPT ![s] = b]
       /\ CASE b.state = "raised" -> RunCatch(s, agent[s], session[s], DestructureFault)
            [] b.state = "returned" ->
                 /\ agent' = [agent EXCEPT ![s].history =
                        Append(@, [step |-> agent[s].stepCount, results |-> b.results])]
                 /\ pc' = [pc EXCEPT ![s] = "sleepStep"]
                 /\ session' = [session EXCEPT ![s] =
                        OnStep(@, "act", agent[s].stepCount, NULL, Some(b.results))]
            [] OTHER -> UNCHANGED <<agent, session, pc>>
    /\ UNCHANGED planner
    /\ RegistryUnchanged

\* the step delay ends: next iteration
SleepStepReturn(s) ==
    /\ pc[s] = "sleepStep"
    /\ LoopIterate(s, agent[s], session[s])
    /\ UNCHANGED <<batch, planner>>
    /\ RegistryUnchanged

\* browser.close() settles (its failure is caught and logged); run() settles
CloseReturn(s) ==
    /\ pc[s] \in {"closeOk", "closeErr"}
    /\ agent' = [agent EXCEPT ![s].browser = "null"]
    /\ pc' = [pc EXCEPT ![s] = IF pc[s] = "closeOk" THEN "returned" ELSE "threw"]
    /\ UNCHANGED <<session, batch, planner>>
    /\ RegistryUnchanged

\* ----------------------------------------------------------- SessionManager
\* the setTimeout callback of createSession
TimeoutUnguarded(s) ==
    /\ agent' = [agent EXCEPT ![s] = stop(@)]
    /\ session' = [session EXCEPT ![s] =
          [@ EXCEPT !.error = Some(TimedOutError), !.completedAt = Some(now),
                    !.endedAt = Some(now)]]
TimeoutMarksOnly(s) ==
    IF agent[s].status = "running"
    THEN /\ session' = [session EXCEPT ![s] =
               [@ EXCEPT !.error = Some(TimedOutError), !.completedAt = Some(now),
                         !.endedAt = Some(now)]]
         /\ UNCHANGED agent
    ELSE UNCHANGED <<agent, session>>
TimeoutCallback(s) ==
    IF agent[s].status = "running"
    THEN /\ agent' = [agent EXCEPT ![s] = stop(@)]
         /\ session' = [session EXCEPT ![s] =
               [@ EXCEPT !.error = Some(TimedOutError), !.completedAt = Some(now),
                         !.endedAt = Some(now)]]
    ELSE UNCHANGED <<agent, session>>

\* the session timeout fires, maxSessionAge after createSession
TimeoutFire(s) ==
    /\ timer[s] = "armed"
    /\ now >= session[s].startedAt + sessionTimeoutMinutes
    /\ timer' = [timer EXCEPT ![s] = "fired"]
    /\ TimeoutCallback(s)
    /\ UNCHANGED <<now, sessions, sessionTimeouts, pc, batch, planner, sweep, maxSteps>>
    /\ UNCHANGED <<reaperInterval, sockets, relayed, reply>>

\* clearTimeout on the session's handle, if the map still holds it
ClearEveryTimer(tm, ids) ==
    [s \in SessionIds |-> IF s \in sessionTimeouts /\ tm[s] = "armed"
                          THEN "cleared" ELSE tm[s]]
ClearTimer(tm, ids) ==
    [s \in SessionIds |-> IF s \in ids /\ s \in sessionTimeouts /\ tm[s] = "armed"
                          THEN "cleared" ELSE tm[s]]

\* SessionManager.stopSession (POST /:id/stop, socket 'stop')
StopSession(s) ==
    /\ s \in sessions
    /\ agent' = [agent EXCEPT ![s] = stop(@)]
    /\ timer' = ClearTimer(timer, {s})
    /\ sessionTimeouts' = sessionTimeouts \ {s}
    /\ UNCHANGED <<now, sessions, session, pc, batch, planner, sweep, maxSteps>>
    /\ UNCHANGED <<reaperInterval, sockets, relayed, reply>>

\* the effect of deleteSession on the agents, for the ids it is called on
DeleteStopsWhatever(ag, ids) ==
    [s \in SessionIds |-> IF s \in ids THEN stop(ag[s]) ELSE ag[s]]
DeleteStops(ag, ids) ==
    [s \in SessionIds |-> IF s \in ids /\ ag[s].status = "running" THEN stop(ag[s]) ELSE ag[s]]

\* SessionManager.deleteSession (DELETE /:id)
DeleteSessionKeepsHandle(s) ==
    /\ s \in sessions
    /\ agent' = DeleteStops(agent, {s})
    /\ timer' = ClearTimer(timer, {s})
    /\ sessions' = sessions \ {s}
    /\ UNCHANGED <<now, sessionTimeouts, session, pc, batch, planner, sweep, maxSteps>>
    /\ UNCHANGED <<reaperInterval, sockets, relayed, reply>>
DeleteSession(s) ==
    /\ s \in sessions
    /\ agent' = DeleteStops(agent, {s})
    /\ timer' = ClearTimer(timer, {s})
    /\ sessionTimeouts' = sessionTimeouts \ {s}
    /\ sessions' = sessions \ {s}
    /\ UNCHANGED <<now, session, pc, batch, planner, sweep, maxSteps>>
    /\ UNCHANGED <<reaperInterval, sockets, relayed, reply>>

\* endedAt is set and lies before the cutoff
EndedBefore(s, cutoff) ==
    /\ session[s].endedAt # NULL
    /\ session[s].endedAt[1] # 0
    /\ session[s].endedAt[1] < cutoff

\* a session whose loop has not finished or whose end was never recorded
Live(s) ==
    \/ agent[s].status \in {"idle", "running", "stopping"}
    \/ session[s].endedAt = NULL

\* the sessions a sweep of reapStaleSessions deletes
StaleWhateverStatus ==
    LET cutoff == now - RetentionMinutes IN
    {s \in sessions : EndedBefore(s, cutoff)}
Stale ==
    LET cutoff == now - RetentionMinutes IN
    {s \in sessions : /\ agent[s].status \in {"complete", "error"}
                      /\ EndedBefore(s, cutoff)}

\* SessionManager.reapStaleSessions, on its interval
Reap ==
    /\ reaperInterval = "set"
    /\ agent' = DeleteStops(agent, Stale)
    /\ timer' = ClearTimer(timer, Stale)
    /\ sessionTimeouts' = sessionTimeouts \ Stale
    /\ sessions' = sessions \ Stale
    /\ sweep' = [overdue |-> {s \in sessions \ Stale : EndedBefore(s, now - RetentionMinutes)},
                 early |-> {s \in Stale : ~EndedBefore(s, now - RetentionMinutes)},
                 live |-> {s \in Stale : Live(s)}]
    /\ UNCHANGED <<now, session, pc, batch, planner, maxSteps>>
    /\ UNCHANGED <<reaperInterval, sockets, relayed, reply>>

\* time passes
Tick ==
    /\ now + TickMinutes <= MaxTime
    /\ now' = now + TickMinutes
    /\ UNCHANGED <<sessions, sessionTimeouts, timer, session, agent, pc, batch, planner,
                   sweep, maxSteps, reaperInterval, sockets, relayed, reply>>

\* the forwarding handlers on the agent of s for one event name: one for each
\* join that registered them and whose socket has not disconnected
RECURSIVE Sum(_, _)
Sum(f, S) == IF S = {} THEN 0 ELSE LET c == CHOOSE x \in S : TRUE IN f[c] + Sum(f, S \ {c})
Forwarders(s) == Sum(sockets.handlers[s], Sockets)

\* this piece of run() emits an event (a step event or a task event)
EmitsEvent(s) ==
    \/ Len(session'[s].steps) > Len(session[s].steps)
    \/ Len(agent'[s].events) > Len(agent[s].events)

\* emit(): every forwarding handler on the agent calls io.to(sessionId).emit
Relay(s) ==
    relayed' = [relayed EXCEPT ![s] = IF EmitsEvent(s) THEN Forwarders(s) ELSE @]

LoopNext(s) ==
    /\ \/ LaunchReturn(s)
       \/ NewContextReturn(s)
       \/ GotoReturn(s)
       \/ ObserveReturn(s)
       \/ SleepObserveReturn(s)
       \/ PlanReturn(s)
       \/ PlanThrow(s)
       \/ SleepPlanReturn(s)
       \/ ActStep(s)
       \/ SleepStepReturn(s)
       \/ CloseReturn(s)
    /\ Relay(s)

Next ==
    \/ \E s \in Solo : StartSession(s)
    \/ \E s \in Solo : LoopNext(s)
    \/ \E s \in Solo : TimeoutFire(s)
    \/ \E s \in Solo : StopSession(s)
    \/ \E s \in Solo : DeleteSession(s)
    \/ Reap
    \/ Tick

Spec == Init /\ [][Next]_vars

\* A deployment whose step budget is one step larger, with a session that no
\* client stops or deletes and that ends before its timeout.
DeepSteps == MaxSteps + 1

InitRun ==
    /\ now = TickMinutes
    /\ sessions = {}
    /\ sessionTimeouts = {}
    /\ timer = [s \in SessionIds |-> "none"]
    /\ session = [s \in SessionIds |-> NewSession(TickMinutes)]
    /\ agent = [s \in SessionIds |-> NewAgent]
    /\ pc = [s \in SessionIds |-> "none"]
    /\ batch = [s \in SessionIds |-> NoBatch]
    /\ planner = [s \in SessionIds |-> NoCalls]
    /\ sweep = NoSweep
    /\ maxSteps = DeepSteps
    /\ reaperInterval = "set"
    /\ sockets = NoSockets
    /\ relayed = [s \in SessionIds |-> 0]
    /\ reply = NoReply

NextRun ==
    \/ \E s \in Solo : StartSession(s)
    \/ \E s \in Solo : LoopNext(s)

SpecRun == InitRun /\ [][NextRun]_vars

\* ------------------------------------------------- run() called once more
\* AgentLoop is an exported class and a session hands out its agent: run()
\* called again on an agent whose earlier run has settled (its status is then
\* complete, error, or stopping after a stop()).  The call goes through lines
\* 42-47 as the first did: nothing looks at the status.
RunAgain(s) ==
    /\ pc[s] \in {"returned", "threw"}
    /\ agent[s].runs < MaxRuns
    /\ agent' = [agent EXCEPT ![s] = RunEntry(@)]
    /\ pc' = [pc EXCEPT ![s] = "launch"]
    /\ UNCHANGED <<session, batch, planner, relayed>>
    /\ RegistryUnchanged

NextRerun ==
    \/ \E s \in Solo : StartSession(s)
    \/ \E s \in Solo : LoopNext(s)
    \/ \E s \in Solo : StopSession(s)
    \/ \E s \in Solo : RunAgain(s)

SpecRerun == Init /\ [][NextRerun]_vars

\* ------------------------------------------------ classifyError on its own
\* classifyError handed an error whose message holds any set of the markers.
Messages == {Msg("request failed", marks) : marks \in SUBSET KnownMarkers}

InitClassify ==
    /\ now = TickMinutes
    /\ sessions = {}
    /\ sessionTimeouts = {}
    /\ timer = [s \in SessionIds |-> "none"]
    /\ session = [s \in SessionIds |-> NewSession(TickMinutes)]
    /\ agent = [s \in SessionIds |-> NewAgent]
    /\ pc = [s \in SessionIds |-> IF s \in Solo THEN "classify" ELSE "none"]
    /\ batch = [s \in SessionIds |-> NoBatch]
    /\ \E m \in Messages :
          planner = [s \in SessionIds |->
                        IF s \in Solo THEN [NoCalls EXCEPT !.thrown = Some(m)] ELSE NoCalls]
    /\ sweep = NoSweep
    /\ maxSteps = MaxSteps
    /\ reaperInterval = "set"
    /\ sockets = NoSockets
    /\ relayed = [s \in SessionIds |-> 0]
    /\ reply = NoReply

Classify(s) ==
    /\ pc[s] = "classify"
    /\ planner' = [planner EXCEPT ![s].classified = Some(classifyError(planner[s].thrown[1]))]
    /\ pc' = [pc EXCEPT ![s] = "classified"]
    /\ UNCHANGED <<session, agent, batch, relayed>>
    /\ RegistryUnchanged

NextClassify == \E s \in Solo : Classify(s)

SpecClassify == InitClassify /\ [][NextClassify]_vars

\* ----------------------------------------------------------- two sessions
\* Two POST /start requests: two sessions, each with an agent of its own, in
\* a deployment with a budget of PairMaxSteps.
PairMaxSteps == 1

InitTwo ==
    /\ now = TickMinutes
    /\ sessions = {}
    /\ sessionTimeouts = {}
    /\ timer = [s \in SessionIds |-> "none"]
    /\ session = [s \in SessionIds |-> NewSession(TickMinutes)]
    /\ agent = [s \in SessionIds |-> NewAgent]
    /\ pc = [s \in SessionIds |-> "none"]
    /\ batch = [s \in SessionIds |-> NoBatch]
    /\ planner = [s \in SessionIds |-> NoCalls]
    /\ sweep = NoSweep
    /\ maxSteps = PairMaxSteps
    /\ reaperInterval = "set"
    /\ sockets = NoSockets
    /\ relayed = [s \in SessionIds |-> 0]
    /\ reply = NoReply

NextTwo ==
    \/ \E s \in SessionIds : StartSession(s)
    \/ \E s \in SessionIds : LoopNext(s)

SpecTwo == InitTwo /\ [][NextTwo]_vars

\* ------------------------------------------------ calls that find no record
\* getSession, stopSession and deleteSession on an id the sessions map does
\* not hold: the early return of each
Missing(op, s, value) ==
    /\ s \notin sessions
    /\ reply' = [op |-> op, id |-> s, value |-> value]
    /\ UNCHANGED <<now, sessions, sessionTimeouts, timer, session, agent, pc, batch,
                   planner, sweep, maxSteps, reaperInterval, sockets, relayed>>

GetSessionMissing(s) == Missing("getSession", s, "null")
StopSessionMissing(s) == Missing("stopSession", s, "false")
DeleteSessionMissing(s) == Missing("deleteSession", s, "false")

\* Two sessions and the calls clients make on the registry, by ids that exist
\* and by ids that do not.  Of each run only the browser launch is followed:
\* it leaves the loop running (launched) or ended in error (the launch failed).
NextIsolation ==
    \/ \E s \in SessionIds : StartSession(s)
    \/ \E s \in SessionIds : LaunchReturn(s) /\ Relay(s)
    \/ \E s \in SessionIds : TimeoutFire(s)
    \/ \E s \in SessionIds : StopSession(s)
    \/ \E s \in SessionIds : DeleteSession(s)
    \/ \E s \in SessionIds : GetSessionMissing(s)
    \/ \E s \in SessionIds : StopSessionMissing(s)
    \/ \E s \in SessionIds : DeleteSessionMissing(s)
    \/ Tick

SpecIsolation == InitTwo /\ [][NextIsolation]_vars

\* ------------------------------------------------------- the push channel
\* (setupSocketHandlers) a client's join is bounded per socket and session
MaxJoins == 2

\* what none of the socket handlers touches
SocketFrame ==
    UNCHANGED <<now, sessions, sessionTimeouts, timer, session, agent, pc, batch, planner,
                sweep, maxSteps, reaperInterval, relayed, reply>>

\* io.on('connection')
Connect(c) ==
    /\ sockets.state[c] = "new"
    /\ sockets' = [sockets EXCEPT !.state[c] = "connected"]
    /\ SocketFrame

\* socket.on('join') for a session that getSession finds: the socket enters
\* the room, and one forwarding handler per event name is put on the agent
Join(c, s) ==
    /\ sockets.state[c] = "connected"
    /\ s \in sessions
    /\ sockets.handlers[s][c] < MaxJoins
    /\ sockets' = [sockets EXCEPT !.room[s] = @ \cup {c}, !.handlers[s][c] = @ + 1]
    /\ SocketFrame

\* the socket disconnects: it leaves its rooms, and each 'disconnect' listener
\* its joins registered removes the handler it was registered with
Disconnect(c) ==
    /\ sockets.state[c] = "connected"
    /\ sockets' = [state |-> [sockets.state EXCEPT ![c] = "closed"],
                   room |-> [s \in SessionIds |-> sockets.room[s] \ {c}],
                   handlers |-> [s \in SessionIds |->
                                    [sockets.handlers[s] EXCEPT ![c] = 0]]]
    /\ SocketFrame

\* A session in a deployment with a budget of PairMaxSteps, and the clients
\* that follow it.
NextSocket ==
    \/ \E s \in Solo : StartSession(s)
    \/ \E s \in Solo : LoopNext(s)
    \/ \E c \in Sockets : Connect(c)
    \/ \E c \in Sockets : \E s \in Solo : Join(c, s)
    \/ \E c \in Sockets : Disconnect(c)

SpecSocket == InitTwo /\ [][NextSocket]_vars

\* ---------------------------------------------------------------- shutdown
\* SessionManager.destroy, called by the SIGTERM / SIGINT handler (which runs
\* once): clearInterval on the reaper, clearTimeout on every handle in the
\* timeout map.  Nothing else is touched.
Destroy ==
    /\ reaperInterval = "set"
    /\ reaperInterval' = "cleared"
    /\ timer' = ClearTimer(timer, SessionIds)
    /\ UNCHANGED <<now, sessions, sessionTimeouts, session, agent, pc, batch, planner,
                   sweep, maxSteps, sockets, relayed, reply>>

\* A server that is shut down: sessions are created until the HTTP server is
\* closed; the loops already running go on, and stop requests still arrive
\* on the open sockets.
NextShutdown ==
    \/ \E s \in Solo : reaperInterval = "set" /\ StartSession(s)
    \/ \E s \in Solo : LoopNext(s)
    \/ \E s \in Solo : TimeoutFire(s)
    \/ \E s \in Solo : StopSession(s)
    \/ Reap
    \/ Tick
    \/ Destroy

SpecShutdown == Init /\ [][NextShutdown]_vars

\* A session under its timeout: created and run, stopped by stopSession or by
\* the timer.  Every call the loop awaits settles and every sleep ends, so a
\* run that can go on does go on.
NextTimeout ==
    \/ \E s \in Solo : StartSession(s)
    \/ \E s \in Solo : LoopNext(s)
    \/ \E s \in Solo : TimeoutFire(s)
    \/ \E s \in Solo : StopSession(s)
    \/ Tick

SpecTimeout == Init /\ [][NextTimeout]_vars /\ \A s \in Solo : WF_vars(LoopNext(s))


\* ------------------------------------------------- the dispatcher on its own
\* An ActionExecutor built directly on a page and handed a request list, as
\* tests/ActionExecutor.test.js does.
InitBatch ==
    /\ now = TickMinutes
    /\ sessions = {}
    /\ sessionTimeouts = {}
    /\ timer = [s \in SessionIds |-> "none"]
    /\ session = [s \in SessionIds |-> NewSession(TickMinutes)]
    /\ agent = [s \in SessionIds |-> NewAgent]
    /\ pc = [s \in SessionIds |-> IF s \in Solo THEN "direct" ELSE "none"]
    /\ \E actions \in BoundedSeq(Requests, MaxBatch) :
          batch = [s \in SessionIds |-> IF s \in Solo THEN BatchCall(actions) ELSE NoBatch]
    /\ planner = [s \in SessionIds |-> NoCalls]
    /\ sweep = NoSweep
    /\ maxSteps = MaxSteps
    /\ reaperInterval = "set"
    /\ sockets = NoSockets
    /\ relayed = [s \in SessionIds |-> 0]
    /\ reply = NoReply

\* executeBatch runs its next iteration
BatchStep(s) ==
    /\ pc[s] = "direct"
    /\ batch[s].state = "running"
    /\ batch' = [batch EXCEPT ![s] = BatchIteration(@)]
    /\ UNCHANGED <<now, sessions, sessionTimeouts, timer, session, agent, pc, planner,
                   sweep, maxSteps, reaperInterval, sockets, relayed, reply>>

NextBatch == \E s \in Solo : BatchStep(s)

SpecBatch == InitBatch /\ [][NextBatch]_vars


\* ================================================================== claims
Terminal == {"complete", "error"}
Settled == {"returned", "threw"}

\* C1: once a loop's status is Complete or Error it never shows Running or
\* Stopping again.  (Stated as it is claimed; the code breaks it: stop() writes
\* 'stopping' whatever the status, and stopSession calls stop() on a finished
\* loop.)
C1_StatusMonotonic ==
    [][\A s \in SessionIds :
          agent[s].status \in Terminal => agent'[s].status \notin {"running", "stopping"}]_vars

\* C2: a session whose run() has returned or thrown holds exactly one of
\* report and error.  (Stated as it is claimed; the code breaks it: the timeout
\* callback sets error, and the aborted loop then sets report.)
C2_ExactlyOneOfReportError ==
    \A s \in SessionIds :
        pc[s] \in Settled => ((session[s].report = NULL) # (session[s].error = NULL))

\* C3: finalization is first-writer-wins: once a record's completion fields
\* are written, the later writer leaves completedAt, endedAt, report and error
\* unchanged.  (Stated as it is claimed; the code breaks it: the loop's
\* terminal listener writes unconditionally after the timeout has finalized.)
C3_FirstWriterWins ==
    [][\A s \in SessionIds :
          session[s].completedAt # NULL =>
              /\ session'[s].completedAt = session[s].completedAt
              /\ session'[s].endedAt = session[s].endedAt
              /\ session'[s].report = session[s].report
              /\ session'[s].error = session[s].error]_vars

\* C4: a timeout that fires when the loop's status is already Complete or
\* Error changes neither the loop's status and aborted flag nor the record's
\* report, error, completedAt and endedAt.
C4_LateTimerNoOp ==
    [][\A s \in SessionIds :
          (timer[s] = "armed" /\ timer'[s] = "fired" /\ agent[s].status \in Terminal) =>
              /\ agent'[s].status = agent[s].status
              /\ agent'[s].aborted = agent[s].aborted
              /\ session'[s].report = session[s].report
              /\ session'[s].error = session[s].error
              /\ session'[s].completedAt = session[s].completedAt
              /\ session'[s].endedAt = session[s].endedAt]_vars

\* The timer of a session has fired without requesting a stop, on a loop that
\* had already finished (a running loop would have been stopped: aborted).
C4_Witness ==
    \E s \in SessionIds :
        /\ timer[s] = "fired"
        /\ agent[s].status \in Terminal
        /\ ~agent[s].aborted
        /\ session[s].report # NULL

\* C5: when run() has returned or thrown, the browser it acquired is released.
C5_BrowserReleased ==
    \A s \in SessionIds : pc[s] \in Settled => agent[s].browser = "null"

\* run() threw on the initial navigation, so after the browser was launched,
\* and has settled.
C5_Witness ==
    \E s \in SessionIds :
        /\ pc[s] = "threw"
        /\ session[s].error = Some(classifyError(GotoFault).message)
        /\ agent[s].browser = "null"

\* whether request i of the list fails, and the first such i
Fails(actions, i) == ~Execute(actions[i]).result.success
SomeFails(actions) == \E i \in 1..Len(actions) : Fails(actions, i)
FirstFailure(actions) ==
    CHOOSE i \in 1..Len(actions) :
        Fails(actions, i) /\ \A j \in 1..(i - 1) : ~Fails(actions, j)
NoNullEntry(actions) == \A i \in 1..Len(actions) : ~actions[i].isNull

C8_UnknownTagFailsClosed ==
    \A s \in SessionIds :
        LET b == batch[s] IN
        \A i \in 1..Len(b.results) :
            b.actions[i].action \notin listSupportedActions =>
                /\ ~b.results[i].success
                /\ b.results[i].error.names = b.actions[i].action
                /\ i \notin {b.invoked[k] : k \in 1..Len(b.invoked)}

\* C9: no entry of a plan's action list makes execute raise, so no run ends in
\* Error because of one.  (Stated as it is claimed; the code breaks it: a null
\* entry is destructured outside execute's try.)
C9_NoRequestCrashesLoop ==
    \A s \in SessionIds :
        /\ batch[s].state # "raised"
        /\ session[s].error # Some(classifyError(DestructureFault).message)

\* C10: the step counter stays within 0..maxSteps.
C10_StepCountInBounds ==
    \A s \in SessionIds : agent[s].stepCount \in 0..maxSteps

\* The last budgeted step is waiting out a planner failure (the counter was
\* incremented for the attempt and is about to be decremented).
C10_Witness ==
    \E s \in SessionIds :
        /\ pc[s] = "sleepPlan"
        /\ agent[s].stepCount = maxSteps
        /\ agent[s].consecutiveErrors > 0

\* the reports the loop builds on its own exits
MaxStepsResult == Text("Max steps reached. Task may be incomplete.")
AbortedResult == Text("Task aborted by user.")

\* C11: when the step budget runs out before any plan declared completion,
\* the run ends with status complete (not error), the session's report is the
\* max-steps report with totalSteps equal to the maximum, and the session's
\* error is not set.
C11_BudgetExhausted ==
    [][\A s \in SessionIds :
          (agent[s].stepCount = maxSteps /\ pc[s] = "sleepStep" /\ pc'[s] # pc[s]) =>
              /\ agent'[s].status = "complete"
              /\ session'[s].report # NULL
              /\ session'[s].report[1].result = MaxStepsResult
              /\ session'[s].report[1].totalSteps = maxSteps
              /\ session'[s].error = NULL]_vars

\* C12: consecutiveErrors equals the number of planner requests rejected since
\* the latest one that resolved (so it is 0 right after every resolved
\* request) and never exceeds maxConsecutiveErrors; it reaches that maximum
\* only through that many rejections in a row.
C12_ConsecutiveErrorsCounts ==
    \A s \in SessionIds :
        /\ agent[s].consecutiveErrors = planner[s].rejected
        /\ agent[s].consecutiveErrors <= maxConsecutiveErrors

\* the counter stands at its maximum
C12_Witness ==
    \E s \in SessionIds :
        /\ agent[s].consecutiveErrors = maxConsecutiveErrors
        /\ planner[s].rejected = maxConsecutiveErrors

\* C13: after maxConsecutiveErrors planner failures in a row the run ends with
\* status error, the session's error is set and no report is set.
C13_PlannerFailuresEndInError ==
    [][\A s \in SessionIds :
          (planner[s].rejected < maxConsecutiveErrors
           /\ planner'[s].rejected = maxConsecutiveErrors) =>
              /\ agent'[s].status = "error"
              /\ session'[s].error # NULL
              /\ session'[s].report = NULL]_vars

\* the step records this step appends to the log of s
Appended(s) ==
    {session'[s].steps[k] : k \in (Len(session[s].steps) + 1)..Len(session'[s].steps)}

\* C14: when a plan declares the task done, the run ends with status complete
\* and a report whose result is that plan's result and whose totalSteps is the
\* index of the step at which the plan was made.
C14_DonePlanReports ==
    [][\A s \in SessionIds : \A r \in Appended(s) :
          (r.phase = "plan" /\ r.plan[1].done) =>
              /\ agent'[s].status = "complete"
              /\ session'[s].report # NULL
              /\ session'[s].report[1].result = r.plan[1].result
              /\ session'[s].report[1].totalSteps = r.step
              /\ r.step = agent[s].stepCount
              /\ r.step >= 1]_vars

\* the first plan of a run said done with "none found": totalSteps is 1
C14_Witness ==
    \E s \in SessionIds :
        /\ pc[s] \in Settled
        /\ agent[s].status = "complete"
        /\ session[s].report # NULL
        /\ session[s].report[1].result = Text("none found")
        /\ session[s].report[1].totalSteps = 1
        /\ Len(session[s].steps) > 0
        /\ session[s].steps[Len(session[s].steps)].phase = "plan"

\* the latest record of a phase in a log that has one
LastOfPhase(steps, phase) ==
    steps[CHOOSE k \in 1..Len(steps) :
              /\ steps[k].phase = phase
              /\ \A j \in (k + 1)..Len(steps) : steps[j].phase # phase]

\* the batch of s has returned to the loop
BatchReturned(s) == batch[s].state = "returned" /\ pc[s] \notin {"none", "direct"}

\* C15: an action failure in the act phase is not retried: every action of the
\* batch is executed at most once and a returned batch is left alone until a
\* new plan brings the next one; the act record of the step holds every
\* result of the batch, the failure included; and the next planner request
\* carries exactly those results as its previous results.
C15_ActFailureNotRetried ==
    /\ [](\A s \in SessionIds :
            /\ BatchReturned(s) =>
                  /\ batch[s].executed = [i \in 1..Len(batch[s].results) |-> i]
                  /\ LastOfPhase(session[s].steps, "act").results = Some(batch[s].results)
                  /\ LastOfPhase(session[s].steps, "act").step
                        = agent[s].history[Len(agent[s].history)].step
            /\ pc[s] = "plan" =>
                  planner[s].previousResults =
                      IF batch[s].state = "returned" THEN Some(batch[s].results) ELSE NULL)
    /\ [][\A s \in SessionIds :
            BatchReturned(s) => \/ batch'[s] = batch[s]
                                \/ /\ pc[s] = "plan"
                                   /\ batch'[s].results = <<>>
                                   /\ batch'[s].executed = <<>>]_vars

\* a planner request that carries the results of a batch whose second action
\* failed
C15_Witness ==
    \E s \in SessionIds :
        /\ pc[s] = "plan"
        /\ batch[s].state = "returned"
        /\ Len(batch[s].results) = 2
        /\ ~batch[s].results[2].success
        /\ planner[s].previousResults = Some(batch[s].results)
        /\ LastOfPhase(session[s].steps, "act").results = Some(batch[s].results)

\* stop() has been called on the agent of s and its run has not ended since
Stopped(s) == agent[s].aborted \/ agent[s].status = "stopping"

\* this step appends a record of the phase to the log of s
Emits(s, phase) == \E r \in Appended(s) : r.phase = phase

\* C16: stop() is cooperative.  The call itself leaves the call in flight, the
\* batch and the step log as they are; a call in flight when the flag is set
\* still returns into its event (step:observe, step:plan, step:act); and once
\* stop() has been called no step:start is emitted, the step counter does not
\* grow and no observe call is begun.
C16_StopIsCooperative ==
    [][\A s \in SessionIds :
          /\ (~Stopped(s) /\ Stopped(s)') =>
                /\ pc'[s] = pc[s]
                /\ batch'[s] = batch[s]
                /\ session'[s].steps = session[s].steps
          /\ Stopped(s) =>
                /\ ~Emits(s, "start")
                /\ agent'[s].stepCount <= agent[s].stepCount
                /\ pc'[s] = "observe" => pc[s] = "observe"
                /\ (pc[s] = "observe" /\ pc'[s] = "plan") => Emits(s, "observe")
                /\ (pc[s] = "plan" /\ pc'[s] = "act") => Emits(s, "plan")
                /\ (pc[s] = "act" /\ pc'[s] = "sleepStep") =>
                      /\ Emits(s, "act")
                      /\ batch'[s].state = "returned"]_vars

\* a batch that goes on, past its first action, with the flag set
C16_Witness ==
    \E s \in SessionIds :
        /\ agent[s].aborted
        /\ agent[s].status = "stopping"
        /\ pc[s] = "act"
        /\ batch[s].state = "running"
        /\ Len(batch[s].results) >= 1

\* the loop of s is in a sleep that ends at the top of the while statement, and
\* the step count it will test there
AtBoundary(s) == pc[s] \in {"sleepObserve", "sleepPlan", "sleepStep"}
BoundaryCount(s) ==
    IF pc[s] = "sleepPlan" THEN agent[s].stepCount - 1 ELSE agent[s].stepCount

\* the run of s ends here with a report of this result
EndsWith(s, result) ==
    /\ pc'[s] \in {"closeOk", "returned"}
    /\ session'[s].report # NULL
    /\ session'[s].report[1].result = result

\* C17 (as claimed): whenever the cancellation flag is set when the loop
\* reaches a step boundary, the run ends with the 'aborted' report, at every
\* step index, the boundary after the last budgeted step included.
C17_AbortedAtAnyBoundary ==
    [][\A s \in SessionIds :
          (AtBoundary(s) /\ agent[s].aborted /\ pc'[s] # pc[s]) =>
              EndsWith(s, AbortedResult)]_vars

\* C17 (amended): the flag set at a boundary with budget left ends the run with
\* the 'aborted' report; at the boundary after the last budgeted step the
\* while condition is tested first and the run ends with the max-steps report
\* although the flag is set.
C17_AbortedWithBudgetLeft ==
    [][\A s \in SessionIds :
          (AtBoundary(s) /\ agent[s].aborted /\ pc'[s] # pc[s]) =>
              IF BoundaryCount(s) < maxSteps
              THEN EndsWith(s, AbortedResult)
              ELSE EndsWith(s, MaxStepsResult)]_vars

\* a run ended by the flag at the boundary after its first step
C17_Witness ==
    \E s \in SessionIds :
        /\ pc[s] \in Settled
        /\ agent[s].aborted
        /\ session[s].report # NULL
        /\ session[s].report[1].result = AbortedResult
        /\ session[s].report[1].totalSteps = 1
        /\ session[s].steps[Len(session[s].steps)].phase = "act"

\* C18: at every reap sweep every session whose completion timestamp is older
\* than the retention window is removed, and every session within the window
\* is retained: the latest sweep has kept no session that had ended before
\* its cutoff and has removed none that had not.
C18_SweepRemovesTheOverdue ==
    /\ sweep.overdue = {}
    /\ sweep.early = {}

\* this step is a stopSession(s) that finds the timeout handle in the map
StopsSession(s) ==
    /\ s \in sessions /\ s \in sessions'
    /\ s \in sessionTimeouts /\ s \notin sessionTimeouts'

\* this step removes s from the registry (deleteSession, also from a sweep)
Deletes(s) == s \in sessions /\ s \notin sessions'

\* the flag of s is set and its status is stopping after this step
StopRequested(s) == agent'[s].aborted /\ agent'[s].status = "stopping"

\* C19 (as claimed): stopSession and deleteSession each request the
\* cooperative stop whatever the loop's status; deleteSession also removes
\* the record and cancels the timeout, which never fires afterwards.
C19_BothStopWhateverStatus ==
    /\ [][\A s \in SessionIds :
            /\ StopsSession(s) => StopRequested(s)
            /\ Deletes(s) => /\ StopRequested(s)
                             /\ s \notin sessionTimeouts'
                             /\ timer'[s] # "armed"]_vars
    /\ [](\A s \in SessionIds : s \notin sessions => timer[s] # "armed")

\* C19 (amended): stopSession requests the stop whatever the status;
\* deleteSession requests it only when the status is running and otherwise
\* leaves the agent as it is; deleteSession removes the record and cancels
\* the timeout, and the timeout of a session that is not in the registry is
\* never pending.
C19_DeleteStopsOnlyRunning ==
    /\ [][\A s \in SessionIds :
            /\ StopsSession(s) => StopRequested(s)
            /\ Deletes(s) => /\ IF agent[s].status = "running"
                                THEN StopRequested(s)
                                ELSE agent'[s] = agent[s]
                             /\ s \notin sessionTimeouts'
                             /\ timer'[s] # "armed"]_vars
    /\ [](\A s \in SessionIds : s \notin sessions => timer[s] # "armed")

\* a session deleted while its loop was in flight: stop requested, handle
\* cleared
C19_Witness ==
    \E s \in SessionIds :
        /\ s \notin sessions
        /\ pc[s] \notin Settled \cup {"none"}
        /\ agent[s].aborted
        /\ agent[s].status = "stopping"
        /\ timer[s] = "cleared"

\* the timeout of s has fired on a running loop, which has not ended yet
TimedOutInFlight(s) ==
    /\ timer[s] = "fired"
    /\ agent[s].aborted
    /\ pc[s] \notin Settled \cup {"none", "closeOk", "closeErr"}

\* C20: the session timeout is enforced.  When it fires on a loop whose status
\* is running, the stop is requested; from then on no step is started; and,
\* the calls in flight returning, the loop reaches a terminal status.
C20_TimeoutEnforced ==
    /\ [][\A s \in SessionIds :
            /\ (timer[s] = "armed" /\ timer'[s] = "fired" /\ agent[s].status = "running")
                  => StopRequested(s)
            /\ TimedOutInFlight(s) =>
                  /\ ~Emits(s, "start")
                  /\ agent'[s].stepCount <= agent[s].stepCount]_vars
    /\ \A s \in Solo :
          TimedOutInFlight(s) ~> (pc[s] \in {"closeOk", "closeErr"} \cup Settled
                                  /\ agent[s].status \in Terminal)

\* the timeout has fired during a plan call of the first step
C20_Witness ==
    \E s \in SessionIds :
        /\ TimedOutInFlight(s)
        /\ agent[s].status = "stopping"
        /\ session[s].error = Some(TimedOutError)
        /\ pc[s] = "plan"
        /\ agent[s].stepCount = 1

\* the number of step:plan records in a log: the steps a plan was returned for
PlanRecords(steps) == Cardinality({k \in 1..Len(steps) : steps[k].phase = "plan"})

\* this step emits step:start with this index
StartsStep(s, n) == \E r \in Appended(s) : r.phase = "start" /\ r.step = n

\* C21: a failed plan attempt consumes no step budget: the retry after a
\* planner failure bears the same step index, and the totalSteps of every
\* final report is the number of steps the planner returned a plan for, also
\* in the report of the third failure in a row.
C21_FailedPlanCostsNoStep ==
    /\ [][\A s \in SessionIds :
            /\ (pc[s] = "sleepPlan" /\ pc'[s] = "observe") =>
                  /\ agent'[s].stepCount = agent[s].stepCount
                  /\ StartsStep(s, agent[s].stepCount)
            /\ (planner[s].rejected < maxConsecutiveErrors
                /\ planner'[s].rejected = maxConsecutiveErrors) =>
                  /\ session'[s].report # NULL
                  /\ session'[s].report[1].totalSteps = PlanRecords(session'[s].steps)]_vars
    /\ [](\A s \in SessionIds :
            session[s].report # NULL =>
                session[s].report[1].totalSteps = PlanRecords(session[s].steps))

\* C22: an observe failure is retried on the same step index and costs no
\* budget: when the pause after the failure ends, step:start is emitted with
\* the index of the failed attempt and the step counter stays where it is.
C22_ObserveRetrySameIndex ==
    [][\A s \in SessionIds :
          (pc[s] = "sleepObserve" /\ pc'[s] # pc[s] /\ ~agent[s].aborted) =>
              /\ pc'[s] = "observe"
              /\ StartsStep(s, agent[s].stepCount)
              /\ agent'[s].stepCount = agent[s].stepCount]_vars

\* C23: observe failures never surface as a session failure: a failed
\* extract() only puts the loop to sleep, touching neither the status nor the
\* session record, and when that sleep ends the run neither throws nor gets
\* the status error nor a (new) session error.
C23_ObserveFailureStaysLocal ==
    [][\A s \in SessionIds :
          /\ (pc[s] = "observe" /\ pc'[s] \notin {"observe", "plan"}) =>
                /\ pc'[s] = "sleepObserve"
                /\ agent'[s] = agent[s]
                /\ session'[s] = session[s]
          /\ (pc[s] = "sleepObserve" /\ pc'[s] # pc[s]) =>
                /\ pc'[s] \in {"observe", "closeOk", "returned"}
                /\ agent'[s].status # "error"
                /\ session'[s].error = session[s].error]_vars

\* a run in which every observe failed: it used up its budget and ended
\* complete, without error
C23_Witness ==
    \E s \in SessionIds :
        /\ pc[s] = "returned"
        /\ agent[s].status = "complete"
        /\ session[s].error = NULL
        /\ Len(session[s].steps) >= 2
        /\ \A k \in 1..Len(session[s].steps) : session[s].steps[k].phase = "start"

\* a step:plan record of a plan with no action and no completion flag
EmptyPlanRecord(r) ==
    /\ r.phase = "plan"
    /\ ~r.plan[1].done
    /\ Len(r.plan[1].actions) = 0

\* C24: a plan with zero actions and no completion flag is a no-op: no batch
\* is dispatched, no history entry is appended, the consecutive-error counter
\* is not incremented, and (unless a stop is pending) the loop goes on with
\* the same step index, for which the next plan is requested.
C24_EmptyPlanIsNoOp ==
    [][\A s \in SessionIds : \A r \in Appended(s) :
          EmptyPlanRecord(r) =>
              /\ batch'[s] = batch[s]
              /\ agent'[s].history = agent[s].history
              /\ agent'[s].consecutiveErrors <= agent[s].consecutiveErrors
              /\ ~agent[s].aborted =>
                    /\ pc'[s] = "observe"
                    /\ agent'[s].stepCount = r.step
                    /\ StartsStep(s, r.step)]_vars

\* C25: no pipelining across steps: while a plan request is out no batch is
\* running, and the request's previous-results argument is null if no batch
\* has been executed in the run and otherwise the complete result list of the
\* batch executed in the step just before this one.
C25_PreviousStepResults ==
    \A s \in SessionIds :
        pc[s] = "plan" =>
            /\ batch[s].state # "running"
            /\ IF Len(agent[s].history) = 0
               THEN planner[s].previousResults = NULL
               ELSE LET last == agent[s].history[Len(agent[s].history)] IN
                    /\ planner[s].previousResults = Some(last.results)
                    /\ last.results = batch[s].results
                    /\ last.step = agent[s].stepCount - 1

\* C26: run() is valid only from idle: a call of run() on a loop that is not
\* idle acquires no second browser and starts no second step loop (the agent
\* on which run() was called more than once holds no browser and emits no
\* step:start).
C26_RunOnlyFromIdle ==
    /\ [](\A s \in SessionIds : agent[s].runs > 1 => agent[s].browser = "null")
    /\ [][\A s \in SessionIds : agent[s].runs > 1 => ~Emits(s, "start")]_vars

\* the faults that come out of the body of run()
RunFaults == {LaunchFault, GotoFault, DestructureFault}

\* the task:error event of a fault, as run() emits it
TaskErrorOf(m) ==
    [name |-> "task:error", error |-> Some(classifyError(m).message),
     type |-> Some(classifyError(m).type)]

\* run() has gone through its catch clause
Thrown(s) == pc[s] \in {"closeErr", "threw"}

\* C27: a fault thrown out of the body of run() ends the run in error: the
\* status becomes error, exactly one task:error is emitted, with the fault's
\* classified message and type, no task:complete is emitted, and the fault is
\* thrown on to the caller.
C27_FaultEndsInError ==
    /\ [][\A s \in SessionIds :
            /\ (~Thrown(s) /\ Thrown(s)') =>
                  /\ agent'[s].status = "error"
                  /\ \E m \in RunFaults :
                        /\ agent'[s].events = Append(agent[s].events, TaskErrorOf(m))
                        /\ session'[s].error = Some(classifyError(m).message)
                  /\ session'[s].report = session[s].report
            /\ Thrown(s) => Thrown(s)']_vars
    /\ [](\A s \in SessionIds :
            Thrown(s) => /\ Len(agent[s].events) = 1
                         /\ agent[s].events[1].name = "task:error")

\* a run ended by the timeout of its initial navigation
C27_Witness ==
    \E s \in SessionIds :
        /\ pc[s] = "threw"
        /\ agent[s].status = "error"
        /\ agent[s].events = <<TaskErrorOf(GotoFault)>>
        /\ agent[s].events[1].type = Some("TIMEOUT")
        /\ session[s].report = NULL

\* the kinds of the taxonomy, and those that are retryable
Kinds == DOMAIN MarkersOf \cup {"UNKNOWN"}
RetryableKinds == {"RATE_LIMIT", "TIMEOUT", "NETWORK", "PARSE_ERROR"}

\* C28: classifyError gives every failure one kind of the taxonomy, according
\* to the markers in its message: a kind other than UNKNOWN only to a message
\* that holds one of that kind's markers, that kind to a message that holds
\* markers of that kind alone, UNKNOWN exactly to the messages with no known
\* marker; retryable is false exactly for AUTH_ERROR and UNKNOWN.
C28_ClassifiesByMarkers ==
    \A s \in SessionIds :
        planner[s].classified # NULL =>
            LET m == planner[s].thrown[1]
                c == planner[s].classified[1]
            IN
            /\ c.type \in Kinds
            /\ c.type # "UNKNOWN" => m.markers \cap MarkersOf[c.type] # {}
            /\ \A k \in DOMAIN MarkersOf :
                  (m.markers # {} /\ m.markers \subseteq MarkersOf[k]) => c.type = k
            /\ c.type = "UNKNOWN" <=> m.markers \cap KnownMarkers = {}
            /\ c.retryable <=> c.type \in RetryableKinds
            /\ ~c.retryable <=> c.type \in {"AUTH_ERROR", "UNKNOWN"}

\* a message with an auth marker and nothing else, classified: AUTH_ERROR, not
\* retryable
C28_Witness ==
    \E s \in SessionIds :
        /\ pc[s] = "classified"
        /\ planner[s].thrown[1].markers = {"401"}
        /\ planner[s].classified # NULL
        /\ planner[s].classified[1].type = "AUTH_ERROR"
        /\ ~planner[s].classified[1].retryable

\* the latest plan request of s failed with an error classified non-retryable
FailedNonRetryable(s) ==
    /\ planner[s].classified # NULL
    /\ ~planner[s].classified[1].retryable

\* C29: a non-retryable planner failure is not retried: after a plan request
\* has failed with an error classified AUTH_ERROR or UNKNOWN the loop sends no
\* further plan request in that run.
C29_NonRetryableNotRetried ==
    [][\A s \in SessionIds :
          FailedNonRetryable(s) => (pc'[s] = "plan" => pc[s] = "plan")]_vars

\* the calls of the loop of s that are in flight
InFlight(s) ==
    {p \in {"observe", "plan"} : pc[s] = p}
        \cup (IF batch[s].state = "running" THEN {"act"} ELSE {})

\* C30: within one session the phases run strictly in sequence: at most one
\* of observe, plan and act is in flight, a batch runs only in the act phase,
\* and its actions are begun one after the other; a call in flight in one
\* session can settle whatever the other session is doing.
C30_PhasesSequential ==
    \A s \in SessionIds :
        /\ Cardinality(InFlight(s)) <= 1
        /\ batch[s].state = "running" => pc[s] = "act"
        /\ batch[s].executed = [i \in 1..Len(batch[s].executed) |-> i]
        /\ Len(batch[s].executed) \in {Len(batch[s].results), Len(batch[s].results) + 1}
        /\ InFlight(s) # {} => ENABLED LoopNext(s)

\* one session's planner request is out while the other session's batch runs
C30_Witness ==
    /\ InFlight(1) = {"plan"}
    /\ InFlight(2) = {"act"}
    /\ Len(batch[2].results) = 1

\* the log of s before this step is a prefix of its log after it
LogExtended(s) ==
    /\ Len(session'[s].steps) >= Len(session[s].steps)
    /\ \A k \in 1..Len(session[s].steps) : session'[s].steps[k] = session[s].steps[k]

\* C31: the step log of a session is append-only with increasing step
\* indices: no step removes or rewrites a record, and of two records with the
\* same phase tag the one appended later has the strictly greater step index,
\* also across planner-error retries.
C31_LogAppendOnlyIncreasing ==
    /\ [][\A s \in SessionIds : LogExtended(s)]_vars
    /\ [](\A s \in SessionIds :
            \A i, j \in 1..Len(session[s].steps) :
                (i < j /\ session[s].steps[i].phase = session[s].steps[j].phase) =>
                    session[s].steps[i].step < session[s].steps[j].step)

\* request i of the batch of s names a supported tag and its primitive
\* completes without throwing
PrimitiveCompletes(s, i) ==
    /\ ~batch[s].actions[i].isNull
    /\ batch[s].actions[i].action \in listSupportedActions
    /\ ~batch[s].actions[i].throws

\* C32: every Action Result that execute returns carries the kind tag of the
\* request it answers, and for a supported tag whose primitive completes
\* without throwing it has success = true and the primitive's return value as
\* its result payload, with no error message.
C32_ResultAnswersRequest ==
    \A s \in SessionIds : \A i \in 1..Len(batch[s].results) :
        LET r == batch[s].results[i] IN
        /\ r.action = batch[s].actions[i].action
        /\ PrimitiveCompletes(s, i) =>
              /\ r.success
              /\ r.result = "done"
              /\ r.error = NoError

\* a batch of a click that completed and an unknown tag: two results, each
\* with the tag of its request
C32_Witness ==
    \E s \in SessionIds :
        /\ batch[s].state = "returned"
        /\ batch[s].actions = <<Req("click", FALSE), Req("dance", FALSE)>>
        /\ Len(batch[s].results) = 2
        /\ batch[s].results[1] = Ok("click", "done")
        /\ batch[s].results[2].action = "dance"
        /\ ~batch[s].results[2].success

\* destroy() runs in this step
Destroyed == reaperInterval = "set" /\ reaperInterval' = "cleared"

\* C33: destroy() clears every armed session timeout and the reaper interval
\* and stops the agents: when it has run no timer is armed and every loop that
\* was running has had its stop requested, and afterwards no timeout callback
\* and no reap sweep runs.
C33_DestroyStopsAll ==
    [][/\ Destroyed =>
             \A s \in SessionIds :
                 /\ timer'[s] # "armed"
                 /\ agent[s].status = "running" => StopRequested(s)
       /\ reaperInterval = "cleared" =>
             /\ sweep' = sweep
             /\ sessions \subseteq sessions'
             /\ \A s \in SessionIds : timer'[s] = timer[s]]_vars

\* the number of step:observe records in a log: each is followed, in the same
\* piece of the loop, by a plan request
PlanRequests(steps) == Cardinality({k \in 1..Len(steps) : steps[k].phase = "observe"})

\* C34: every run terminates: as each observe, plan and action call settles,
\* a run that has started comes to return or throw, whatever the planner and
\* the extractor do (plans without actions, extractions that fail); and a run
\* gets at most maxSteps plans out of at most 3 * maxSteps plan requests.
C34_EveryRunTerminates ==
    /\ \A s \in Solo : (pc[s] = "launch") ~> (pc[s] \in Settled)
    /\ [](\A s \in SessionIds :
            /\ PlanRecords(session[s].steps) <= maxSteps
            /\ PlanRequests(session[s].steps) <= 3 * maxSteps)

\* a run that has returned after 3 * maxSteps plan requests, of which the
\* planner answered maxSteps, each with a plan without actions
C34_Witness ==
    \E s \in SessionIds :
        /\ pc[s] = "returned"
        /\ PlanRequests(session[s].steps) = 3 * maxSteps
        /\ PlanRecords(session[s].steps) = maxSteps
        /\ \A k \in 1..Len(session[s].steps) :
              session[s].steps[k].phase = "plan" => EmptyPlanRecord(session[s].steps[k])

\* C35: the reaper never removes a live session: no sweep removes a session
\* whose loop is idle, running or stopping, nor one whose endedAt is unset,
\* however old the session is.
C35_ReaperSparesLive ==
    /\ sweep.live = {}
    /\ \A s \in Stale : ~Live(s)

\* the latest sweep met a session that had ended long before its cutoff and
\* whose loop a later stop had put in stopping: it kept it
C35_Witness ==
    \E s \in sessions :
        /\ s \in sweep.overdue
        /\ agent[s].status = "stopping"
        /\ EndedBefore(s, now - RetentionMinutes)

\* C36: no timer handle outlives its session record: after any sequence of
\* createSession, stopSession, deleteSession, timeout firings and sweeps,
\* every id with an entry in the timeout map has a record in the sessions map.
C36_HandlesHaveRecords == sessionTimeouts \subseteq sessions

\* a session whose timeout fired (the handle stays in the map) and that was
\* deleted afterwards: neither map holds its id
C36_Witness ==
    \E s \in SessionIds :
        /\ timer[s] = "fired"
        /\ s \notin sessions
        /\ s \notin sessionTimeouts

\* the latest record of the log of s is a plan with the completion flag set
DoneLogged(s) ==
    LET steps == session[s].steps IN
    /\ Len(steps) > 0
    /\ steps[Len(steps)].phase = "plan"
    /\ steps[Len(steps)].plan[1].done

\* C37: when a plan has its completion flag set none of the actions it lists
\* is dispatched: at the step that logs the plan and from then on no batch is
\* started or advanced, no history entry is appended and no step:act is
\* emitted; the run ends with that plan.
C37_DonePlanDispatchesNothing ==
    [][\A s \in SessionIds :
          DoneLogged(s)' =>
              /\ batch'[s] = batch[s]
              /\ agent'[s].history = agent[s].history
              /\ ~Emits(s, "act")
              /\ pc'[s] \in {"closeOk", "returned"}]_vars

\* the first plan of a run had the flag set and listed an action: the run has
\* returned and no primitive was ever invoked
C37_Witness ==
    \E s \in SessionIds :
        /\ pc[s] = "returned"
        /\ DoneLogged(s)
        /\ Len(session[s].steps[Len(session[s].steps)].plan[1].actions) = 1
        /\ batch[s] = NoBatch
        /\ agent[s].history = <<>>

\* C38: each event a session's loop emits is relayed to the session's room
\* exactly once, however many clients have joined the room and in whatever
\* sequence of joins (the same client twice included) and disconnects; and
\* when every client that joined has disconnected no forwarding handler is
\* left on the loop.
C38_RelayedExactlyOnce ==
    /\ [][\A s \in SessionIds :
            (EmitsEvent(s) /\ sockets.room[s] # {}) => relayed'[s] = 1]_vars
    /\ [](\A s \in SessionIds : sockets.room[s] = {} => Forwarders(s) = 0)

\* the phase whose event comes just before the event of this phase
PhaseBefore == [observe |-> "start", plan |-> "observe", act |-> "plan"]

\* the log has the events of every iteration in the order start, observe,
\* plan, act: each record but a start follows the record of the phase before
\* it, of the same step
InPhaseOrder(steps) ==
    \A k \in 1..Len(steps) :
        steps[k].phase # "start" =>
            /\ k > 1
            /\ steps[k - 1].phase = PhaseBefore[steps[k].phase]
            /\ steps[k - 1].step = steps[k].step

\* C39: the events of a run are well ordered: within a step they come in the
\* order step:start, step:observe, step:plan, step:act, none without the ones
\* before it; a run emits exactly one terminal event (task:complete or
\* task:error), and no step event after it.
C39_EventsWellOrdered ==
    /\ [](\A s \in SessionIds :
            /\ InPhaseOrder(session[s].steps)
            /\ Len(agent[s].events) <= agent[s].runs
            /\ pc[s] \in Settled \cup {"closeOk", "closeErr"} =>
                  Len(agent[s].events) = agent[s].runs)
    /\ [][\A s \in SessionIds :
            Len(agent[s].events) = agent[s].runs => Appended(s) = {}]_vars

\* a run that went through a whole step and then ended on a done plan: start,
\* observe, plan, act, start, observe, plan, and one task:complete
C39_Witness ==
    \E s \in SessionIds :
        /\ pc[s] = "returned"
        /\ Len(session[s].steps) = 7
        /\ session[s].steps[4].phase = "act"
        /\ DoneLogged(s)
        /\ Len(agent[s].events) = 1
        /\ agent[s].events[1].name = "task:complete"

\* this step is a registry operation on session a: stopSession, deleteSession
\* or the firing of its timeout
OperatesOn(a) ==
    \/ StopsSession(a)
    \/ Deletes(a)
    \/ timer[a] = "armed" /\ timer'[a] = "fired"
    \/ ~agent[a].aborted /\ agent'[a].aborted

\* the record, the map entries, the loop's status and flag, and the timer of b
\* are after this step what they were before it
Untouched(b) ==
    /\ session'[b] = session[b]
    /\ (b \in sessions') = (b \in sessions)
    /\ (b \in sessionTimeouts') = (b \in sessionTimeouts)
    /\ agent'[b].status = agent[b].status
    /\ agent'[b].aborted = agent[b].aborted
    /\ timer'[b] = timer[b]

\* C40: registry operations are isolated per session: getSession, stopSession
\* and deleteSession on an id without a record return null / false and change
\* nothing, and stopSession, deleteSession or the timeout of a session A leaves
\* the record, the loop status, the aborted flag and the timer of every other
\* session B as they were.
C40_IsolatedPerSession ==
    [][/\ reply' # reply =>
             /\ reply'.id \notin sessions
             /\ reply'.value = IF reply'.op = "getSession" THEN "null" ELSE "false"
             /\ \A b \in SessionIds : Untouched(b)
       /\ \A a, b \in SessionIds :
             (a # b /\ OperatesOn(a)) => Untouched(b)]_vars

\* session 1 was deleted while running and a later stopSession on its id
\* returned false; session 2 is still running under its armed timer
C40_Witness ==
    /\ 1 \notin sessions
    /\ agent[1].aborted
    /\ timer[1] = "cleared"
    /\ reply = [op |-> "stopSession", id |-> 1, value |-> "false"]
    /\ 2 \in sessions
    /\ agent[2].status = "running"
    /\ ~agent[2].aborted
    /\ timer[2] = "armed"

====
